---- MODULE Spec2Model ----
(***************************************************************************)
(* The package build script (scripts/prepare/bundle.ts of the monorepo):   *)
(* run() reads the package manifest, runs the pre hook, clears dist on     *)
(* --reset, dispatches one tsup build per requested format plus one        *)
(* declaration mapping file per entry, awaits them all, runs the post hook *)
(* and reports.  Strings that the script inspects character by character   *)
(* (flags, paths, entry names) are sequences of one-character strings.     *)
(***************************************************************************)
EXTENDS Integers, Sequences, FiniteSets, TLC

(***************************************************************************)
(* Bounds of the model.                                                    *)
(***************************************************************************)
MaxEntries == 2

(***************************************************************************)
(* String primitives of the JavaScript runtime, on character sequences.    *)
(***************************************************************************)
Min(S) == CHOOSE x \in S : \A y \in S : x <= y

Max(S) == CHOOSE x \in S : \A y \in S : x >= y

\* s.startsWith(pat, i - 1), with 1-based i
StartsWithAt(s, pat, i) ==
    /\ i + Len(pat) - 1 <= Len(s)
    /\ \A k \in 1..Len(pat) : s[i + k - 1] = pat[k]

\* s.startsWith(pat)
StartsWith(s, pat) == StartsWithAt(s, pat, 1)

\* s.indexOf(pat) + 1: the 1-based place of the first occurrence, 0 when none
IndexOf(s, pat) ==
    LET I == {i \in 1..(Len(s) + 1) : StartsWithAt(s, pat, i)}
    IN  IF I = {} THEN 0 ELSE Min(I)

\* s.includes(pat)
StrIncludes(s, pat) == IndexOf(s, pat) # 0

\* s.replace(pat, rep) with a string pattern: the first occurrence only
StrReplace(s, pat, rep) ==
    LET i == IndexOf(s, pat)
    IN  IF i = 0 THEN s
        ELSE SubSeq(s, 1, i - 1) \o rep \o SubSeq(s, i + Len(pat), Len(s))

\* s.lastIndexOf(c) + 1
LastIndexOf(s, c) ==
    LET I == {i \in 1..Len(s) : s[i] = c}
    IN  IF I = {} THEN 0 ELSE Max(I)

\* s.split(c)
RECURSIVE StrSplit(_, _)
StrSplit(s, c) ==
    LET i == IndexOf(s, <<c>>)
    IN  IF i = 0 THEN <<s>>
        ELSE <<SubSeq(s, 1, i - 1)>> \o StrSplit(SubSeq(s, i + 1, Len(s)), c)

\* segs.join(sep)
RECURSIVE StrJoin(_, _)
StrJoin(segs, sep) ==
    IF segs = <<>> THEN <<>>
    ELSE IF Len(segs) = 1 THEN segs[1]
    ELSE segs[1] \o sep \o StrJoin(Tail(segs), sep)

\* array.includes(x)
ArrIncludes(arr, x) == \E i \in 1..Len(arr) : arr[i] = x

(***************************************************************************)
(* node:path (posix) as the script uses it.                                *)
(***************************************************************************)
sep == "/"

dot == "."

isAbsolute(p) == Len(p) > 0 /\ p[1] = sep

\* normalizeString: drops '' and '.', resolves '..' against the segment before it
RECURSIVE normalizeSegs(_, _, _)
normalizeSegs(segs, res, allowAboveRoot) ==
    IF segs = <<>> THEN res
    ELSE LET g == Head(segs)
             r == Tail(segs)
         IN  IF g = <<>> \/ g = <<dot>> THEN normalizeSegs(r, res, allowAboveRoot)
             ELSE IF g = <<dot, dot>>
                  THEN IF Len(res) > 0 /\ res[Len(res)] # <<dot, dot>>
                       THEN normalizeSegs(r, SubSeq(res, 1, Len(res) - 1), allowAboveRoot)
                       ELSE IF allowAboveRoot
                            THEN normalizeSegs(r, Append(res, g), allowAboveRoot)
                            ELSE normalizeSegs(r, res, allowAboveRoot)
                  ELSE normalizeSegs(r, Append(res, g), allowAboveRoot)

\* path.normalize(p)
normalize(p) ==
    IF p = <<>> THEN <<dot>>
    ELSE LET abs   == isAbsolute(p)
             trail == p[Len(p)] = sep
             body  == StrJoin(normalizeSegs(StrSplit(p, sep), <<>>, ~abs), <<sep>>)
             b1    == IF body = <<>> /\ ~abs THEN <<dot>> ELSE body
             b2    == IF body # <<>> /\ trail THEN b1 \o <<sep>> ELSE b1
         IN  IF abs THEN <<sep>> \o b2 ELSE b2

\* path.join(...parts): the non-empty parts joined by '/', normalized
join(parts) ==
    LET nonEmpty(x) == x # <<>>
        kept == SelectSeq(parts, nonEmpty)
    IN  IF kept = <<>> THEN <<dot>> ELSE normalize(StrJoin(kept, <<sep>>))

\* p without its trailing separators (one is kept when p is only separators)
RECURSIVE stripTrailing(_)
stripTrailing(p) ==
    IF Len(p) > 1 /\ p[Len(p)] = sep THEN stripTrailing(SubSeq(p, 1, Len(p) - 1)) ELSE p

\* path.parse(p): the fields dir, base, ext and name
parse(p) ==
    LET q    == stripTrailing(p)
        ls   == LastIndexOf(q, sep)
        base == IF q = <<sep>> THEN <<>> ELSE SubSeq(q, ls + 1, Len(q))
        dir  == IF ls = 0 THEN <<>>
                ELSE IF ls = 1 THEN <<sep>>
                ELSE stripTrailing(SubSeq(q, 1, ls - 1))
        ld   == LastIndexOf(base, dot)
        ext  == IF ld <= 1 \/ base = <<dot, dot>> THEN <<>> ELSE SubSeq(base, ld, Len(base))
    IN  [dir |-> dir, base |-> base, ext |-> ext,
         name |-> SubSeq(base, 1, Len(base) - Len(ext))]

\* path.dirname(p)
dirname(p) ==
    LET q  == stripTrailing(p)
        ls == LastIndexOf(q, sep)
    IN  IF ls = 0 THEN <<dot>>
        ELSE IF ls = 1 THEN <<sep>>
        ELSE stripTrailing(SubSeq(q, 1, ls - 1))

\* the length of the longest common prefix of two segment lists
RECURSIVE commonLen(_, _)
commonLen(a, b) ==
    IF a = <<>> \/ b = <<>> \/ Head(a) # Head(b) THEN 0
    ELSE 1 + commonLen(Tail(a), Tail(b))

\* path.relative(from, to), both absolute
relative(from, to) ==
    LET f == normalizeSegs(StrSplit(from, sep), <<>>, FALSE)
        t == normalizeSegs(StrSplit(to, sep), <<>>, FALSE)
        c == commonLen(f, t)
        up == [i \in 1..(Len(f) - c) |-> <<dot, dot>>]
    IN  StrJoin(up \o SubSeq(t, c + 1, Len(t)), <<sep>>)

\* slash(p): every backslash becomes a forward slash
slash(p) == [i \in 1..Len(p) |-> IF p[i] = "\\" THEN sep ELSE p[i]]

(***************************************************************************)
(* The strings of the script and of the modelled inputs.                   *)
(***************************************************************************)
nodeInternalNames ==
    << <<"a", "s", "s", "e", "r", "t">>,
       <<"b", "u", "f", "f", "e", "r">>,
       <<"c", "h", "i", "l", "d", "_", "p", "r", "o", "c", "e", "s", "s">>,
       <<"c", "l", "u", "s", "t", "e", "r">>,
       <<"c", "r", "y", "p", "t", "o">>,
       <<"d", "g", "r", "a", "m">>,
       <<"d", "n", "s">>,
       <<"d", "o", "m", "a", "i", "n">>,
       <<"e", "v", "e", "n", "t", "s">>,
       <<"f", "s">>,
       <<"h", "t", "t", "p">>,
       <<"h", "t", "t", "p", "s">>,
       <<"n", "e", "t">>,
       <<"o", "s">>,
       <<"p", "a", "t", "h">>,
       <<"p", "u", "n", "y", "c", "o", "d", "e">>,
       <<"q", "u", "e", "r", "y", "s", "t", "r", "i", "n", "g">>,
       <<"r", "e", "a", "d", "l", "i", "n", "e">>,
       <<"s", "t", "r", "e", "a", "m">>,
       <<"s", "t", "r", "i", "n", "g", "_", "d", "e", "c", "o", "d", "e", "r">>,
       <<"t", "l", "s">>,
       <<"t", "t", "y">>,
       <<"u", "r", "l">>,
       <<"u", "t", "i", "l">>,
       <<"v", "8">>,
       <<"v", "m">>,
       <<"z", "l", "i", "b">> >>

\* '--reset'
ResetFlag == <<"-", "-", "r", "e", "s", "e", "t">>

\* '--watch'
WatchFlag == <<"-", "-", "w", "a", "t", "c", "h">>

\* '--optimized'
OptimizedFlag == <<"-", "-", "o", "p", "t", "i", "m", "i", "z", "e", "d">>

\* '--optimized=true'
OptimizedEqFlag == <<"-", "-", "o", "p", "t", "i", "m", "i", "z", "e", "d", "=", "t", "r", "u", "e">>

\* '/pkg'
ProcessCwd == <<"/", "p", "k", "g">>

\* 'pkg'
PackageName == <<"p", "k", "g">>

\* 'dist'
DistName == <<"d", "i", "s", "t">>

\* './src'
DotSrc == <<".", "/", "s", "r", "c">>

\* '.d.ts'
DtsExt == <<".", "d", ".", "t", "s">>

\* 'preset'
PresetWord == <<"p", "r", "e", "s", "e", "t">>

\* 'node:'
NodeScheme == <<"n", "o", "d", "e", ":">>

\* 'tsconfig.json'
TsconfigJson == <<"t", "s", "c", "o", "n", "f", "i", "g", ".", "j", "s", "o", "n">>

\* './src/index.ts'
IndexEntry == <<".", "/", "s", "r", "c", "/", "i", "n", "d", "e", "x", ".", "t", "s">>

\* './src/presets/foo-preset.ts'
FooPresetEntry == <<".", "/", "s", "r", "c", "/", "p", "r", "e", "s", "e", "t", "s", "/", "f", "o", "o", "-", "p", "r", "e", "s", "e", "t", ".", "t", "s">>

\* './src/presets/index.ts'
PresetsIndexEntry == <<".", "/", "s", "r", "c", "/", "p", "r", "e", "s", "e", "t", "s", "/", "i", "n", "d", "e", "x", ".", "t", "s">>

\* 'src/manager.ts'
BareManagerEntry == <<"s", "r", "c", "/", "m", "a", "n", "a", "g", "e", "r", ".", "t", "s">>

\* '/pkg/dist/old.js'
StaleFile == <<"/", "p", "k", "g", "/", "d", "i", "s", "t", "/", "o", "l", "d", ".", "j", "s">>

\* '/pkg/dist/pre.txt'
HookFile == <<"/", "p", "k", "g", "/", "d", "i", "s", "t", "/", "p", "r", "e", ".", "t", "x", "t">>

\* 'react'
React == <<"r", "e", "a", "c", "t">>

\* 'lodash'
Lodash == <<"l", "o", "d", "a", "s", "h">>

\* the pattern /^@vitest\/.+$/
Vitest == <<"^", "@", "v", "i", "t", "e", "s", "t", "/", ".", "+", "$">>

\* 'chalk'
Chalk == <<"c", "h", "a", "l", "k">>

\* 'src'
SrcName == <<"s", "r", "c">>

\* '--'
DashDash == <<"-", "-">>

\* 'reset'
reset_ == <<"r", "e", "s", "e", "t">>

\* 'watch'
watch_ == <<"w", "a", "t", "c", "h">>

\* 'optimized'
optimized_ == <<"o", "p", "t", "i", "m", "i", "z", "e", "d">>

(***************************************************************************)
(* State.                                                                  *)
(*   pc          where run() stands (the await it is suspended on)         *)
(*   flags       process.argv.slice(2)                                     *)
(*   packageJson the manifest on disk                                      *)
(*   files       the files on disk with a path: path, kind, ref            *)
(*   bundles     what the build tasks have emitted into their outDir       *)
(*   cfg         the destructured manifest                                 *)
(*   opts        reset, watch, optimized                                   *)
(*   dts         what getDTSConfigs returned                               *)
(*   tasks       the tasks array, in push order                            *)
(*   preHook, postHook   the hook processes                                *)
(*   emptyDirLog the paths each fs.emptyDir call removed (history)         *)
(*   err         the value run() rejected with                             *)
(*   stderr, stdout, exitCode   what the process printed and returned      *)
(***************************************************************************)
VARIABLES pc, flags, packageJson, files, bundles, cfg, opts, dts, tasks,
          preHook, postHook, emptyDirLog, err, stderr, stdout, exitCode

vars == <<pc, flags, packageJson, files, bundles, cfg, opts, dts, tasks,
          preHook, postHook, emptyDirLog, err, stderr, stdout, exitCode>>

(***************************************************************************)
(* Pure parts of the script.                                               *)
(***************************************************************************)
\* nodeInternals: the reducer calls acc.concat(...), which returns a new array
\* and leaves acc as it is, and then returns acc
RECURSIVE reduceNodeInternals(_, _)
reduceNodeInternals(names, acc) ==
    IF names = <<>> THEN acc
    ELSE LET i == Head(names)
             concatenated == acc \o <<i, NodeScheme \o i>>
         IN  reduceNodeInternals(Tail(names), acc)

nodeInternals == reduceNodeInternals(nodeInternalNames, <<>>)

\* const hasFlag = (flags, name) => !!flags.find((s) => s.startsWith(`--${name}`))
hasFlag(fl, name) == \E i \in 1..Len(fl) : StartsWith(fl[i], DashDash \o name)

\* a destructuring without the default
givenFormats(m) == m.formats

\* formats = ['esm', 'cjs'] in the destructuring: the default of an undefined field
defaultFormats(m) == IF "formats" \in m.defined THEN m.formats ELSE <<"esm", "cjs">>

\* the destructuring of the manifest, with its defaults
destructure(m) ==
    [name             |-> m.name,
     dependencies     |-> IF "dependencies" \in m.defined THEN m.dependencies ELSE <<>>,
     peerDependencies |-> IF "peerDependencies" \in m.defined THEN m.peerDependencies ELSE <<>>,
     entries          |-> IF "entries" \in m.defined THEN m.entries ELSE <<>>,
     extraExternals   |-> IF "externals" \in m.defined THEN m.externals ELSE <<>>,
     extraNoExternal  |-> IF "noExternal" \in m.defined THEN m.noExternal ELSE <<>>,
     platform         |-> IF "platform" \in m.defined THEN m.platform ELSE "undefined",
     pre              |-> IF "pre" \in m.defined THEN m.pre ELSE "",
     post             |-> IF "post" \in m.defined THEN m.post ELSE "",
     formats          |-> defaultFormats(m)]

\* if (pre), if (post): an undefined or empty path is falsy
truthy(hook) == hook # ""

\* const outDir = join(process.cwd(), 'dist')
outDir == join(<<ProcessCwd, DistName>>)

\* const externals = [name, ...extraExternals, ...keys(dependencies), ...keys(peerDependencies)]
externals(c) ==
    <<c.name>> \o c.extraExternals \o c.dependencies \o c.peerDependencies

\* const allEntries = entries.map((e) => slash(join(cwd, e)))
allEntries(c) == [i \in 1..Len(c.entries) |-> slash(join(<<ProcessCwd, c.entries[i]>>))]

\* (f) => !path.parse(f).name.includes('preset')
isNonPreset(f) == ~StrIncludes(parse(f).name, PresetWord)

\* the filter left out (the commented line: const nonPresetEntries = allEntries)
allEntriesKept(all) == all

\* const nonPresetEntries = allEntries.filter(...)
nonPresetEntries(all) == SelectSeq(all, isNonPreset)

\* const noExternal = [/^@vitest\/.+$/, ...extraNoExternal]
noExternal(c) == <<Vitest>> \o c.extraNoExternal

\* fs.pathExists(p)
pathExists(fs, p) == \E f \in fs : f.path = p

\* getDTSConfigs({ formats, entries, optimized })
getDTSConfigs(fs, formats, entries, optimized) ==
    LET tsConfigPath   == join(<<ProcessCwd, TsconfigJson>>)
        tsConfigExists == pathExists(fs, tsConfigPath)
        first          == IF Len(formats) > 0 THEN formats[1] ELSE "undefined"
    IN  [dtsBuild       |-> IF optimized /\ first # "undefined" /\ tsConfigExists
                            THEN first ELSE "undefined",
         dtsEntry       |-> entries,
         tsconfig       |-> tsConfigPath,
         tsConfigExists |-> tsConfigExists]

\* getESBuildOptions(optimized)
getESBuildOptions(optimized) ==
    [minifyWhitespace |-> optimized, minifyIdentifiers |-> FALSE, minifySyntax |-> optimized]

\* both builds pushed whatever the list holds
requestedAlways(formats, f) == TRUE

\* if (formats.includes('esm')), if (formats.includes('cjs'))
requested(formats, f) == ArrIncludes(formats, f)

\* dtsConfig spread into every build once dtsBuild is set
dtsAttachedToAny(d, f) == d.dtsBuild # "undefined"

\* ...(dtsBuild === 'esm' ? dtsConfig : {}), ...(dtsBuild === 'cjs' ? dtsConfig : {})
dtsAttached(d, f) == d.dtsBuild = f

\* the options of the build({ ..., format: ['esm'] }) call
esmBuild(c, o, d) ==
    [kind |-> "build", format |-> "esm", state |-> "pending", file |-> <<>>,
     entry    |-> nonPresetEntries(allEntries(c)),
     external |-> IF c.platform = "node" THEN externals(c) \o nodeInternals ELSE externals(c),
     noExternal |-> noExternal(c),
     dts      |-> dtsAttached(d, "esm"),
     dtsEntry |-> IF dtsAttached(d, "esm") THEN d.dtsEntry ELSE <<>>,
     watch    |-> o.watch,
     outDir   |-> outDir,
     banner   |-> c.platform = "node",
     platform |-> IF c.platform = "undefined" THEN "browser" ELSE c.platform,
     esbuild  |-> getESBuildOptions(o.optimized)]

\* the options of the build({ ..., format: ['cjs'] }) call
cjsBuild(c, o, d) ==
    [kind |-> "build", format |-> "cjs", state |-> "pending", file |-> <<>>,
     entry    |-> allEntries(c),
     external |-> externals(c),
     noExternal |-> noExternal(c),
     dts      |-> dtsAttached(d, "cjs"),
     dtsEntry |-> IF dtsAttached(d, "cjs") THEN d.dtsEntry ELSE <<>>,
     watch    |-> o.watch,
     outDir   |-> outDir,
     banner   |-> FALSE,
     platform |-> "node",
     esbuild  |-> getESBuildOptions(o.optimized)]

\* generateDTSMapperFile(file): the path it writes and the module it re-exports
dtsMapperPath(file) ==
    LET p == parse(file)
    IN  join(<<ProcessCwd, StrReplace(p.dir, DotSrc, DistName), p.name \o DtsExt>>)

dtsMapperRef(file) ==
    LET p        == parse(file)
        pathName == dtsMapperPath(file)
        srcName  == join(<<ProcessCwd, file>>)
        rel      == StrJoin(StrSplit(relative(dirname(pathName), dirname(srcName)), sep), <<sep>>)
    IN  rel \o <<sep>> \o p.name

\* one entry of entries.map(generateDTSMapperFile): the call runs to its first await
mapperTask(file) ==
    [kind |-> "mapper", format |-> "none", state |-> "ensureFile", file |-> file,
     entry |-> <<>>, external |-> <<>>, noExternal |-> <<>>, dts |-> FALSE,
     dtsEntry |-> <<>>, watch |-> FALSE, outDir |-> <<>>, banner |-> FALSE,
     platform |-> "none", esbuild |-> getESBuildOptions(FALSE)]

\* if (tsConfigExists && !optimized)
mapsDeclarations(d, o) == d.tsConfigExists /\ ~o.optimized

\* whether p lies under directory dir
inDir(p, dir) == StartsWith(p, dir \o <<sep>>)

\* a clearing step that removes nothing
emptyDirKeepsAll(fs, dir) == fs

\* fs.emptyDir(dir): what is left on disk
emptyDir(fs, dir) == {f \in fs : ~inDir(f.path, dir)}

\* fs.ensureFile(p): creates an empty file unless one is there
ensureFile(fs, p) ==
    IF pathExists(fs, p) THEN fs ELSE fs \cup {[path |-> p, kind |-> "empty", ref |-> <<>>]}

\* fs.writeFile(p, "// dev-mode\nexport * from '<ref>';")
writeFile(fs, p, ref) ==
    {f \in fs : f.path # p} \cup {[path |-> p, kind |-> "mapper", ref |-> ref]}

\* Promise.race in place of Promise.all: settled with the first task that settles
promiseRace(ts) ==
    IF \E i \in 1..Len(ts) : ts[i].state = "rejected" THEN "rejected"
    ELSE IF ts = <<>> \/ \E i \in 1..Len(ts) : ts[i].state = "fulfilled" THEN "fulfilled"
    ELSE "pending"

\* Promise.allSettled in place of Promise.all: never rejected
promiseAllSettled(ts) ==
    IF \A i \in 1..Len(ts) : ts[i].state \in {"fulfilled", "rejected"} THEN "fulfilled"
    ELSE "pending"

\* Promise.all(tasks): rejected with the first rejection, fulfilled when all are
promiseAll(ts) ==
    IF \E i \in 1..Len(ts) : ts[i].state = "rejected" THEN "rejected"
    ELSE IF \A i \in 1..Len(ts) : ts[i].state = "fulfilled" THEN "fulfilled"
    ELSE "pending"

\* a handler that prints nothing
printsNever(e) == FALSE

\* if (err instanceof Error) console.error(err.stack)
printsStack(e) == e.isError

\* process.exit(1)
catchExitCode == 1

NoError == [isError |-> FALSE, step |-> "none"]

(***************************************************************************)
(* The external processes and libraries run() awaits.                      *)
(***************************************************************************)
\* exec(command, { cwd }): rejects when the hook script exits non-zero
execRejects(status) == status # 0

\* what a pre hook may leave in the output directory
HookWrites == {{}, {[path |-> HookFile, kind |-> "hook", ref |-> <<>>]}}

\* what a build task emits into its outDir once it is done
emitted(t) ==
    {[outDir |-> t.outDir, format |-> t.format, kind |-> "js", entry |-> t.entry[i]] :
        i \in 1..Len(t.entry)}
    \cup {[outDir |-> t.outDir, format |-> t.format, kind |-> "dts", entry |-> t.dtsEntry[i]] :
        i \in 1..Len(t.dtsEntry)}

(***************************************************************************)
(* run(), one action per step between two awaits.                          *)
(***************************************************************************)
\* await fs.readJson(join(cwd, 'package.json')) and the destructuring
ReadJsonResolves ==
    /\ pc = "readJson"
    /\ packageJson.valid
    /\ cfg' = destructure(packageJson)
    /\ pc' = "pre"
    /\ UNCHANGED <<flags, packageJson, files, bundles, opts, dts, tasks, preHook,
                   postHook, emptyDirLog, err, stderr, stdout, exitCode>>

ReadJsonRejects ==
    /\ pc = "readJson"
    /\ ~packageJson.valid
    /\ err' = [isError |-> TRUE, step |-> "readJson"]
    /\ pc' = "rejected"
    /\ UNCHANGED <<flags, packageJson, files, bundles, cfg, opts, dts, tasks, preHook,
                   postHook, emptyDirLog, stderr, stdout, exitCode>>

\* if (pre) { await exec(...) }
ExecPre ==
    /\ pc = "pre"
    /\ truthy(cfg.pre)
    /\ preHook' = "running"
    /\ pc' = "awaitPre"
    /\ UNCHANGED <<flags, packageJson, files, bundles, cfg, opts, dts, tasks,
                   postHook, emptyDirLog, err, stderr, stdout, exitCode>>

SkipPre ==
    /\ pc = "pre"
    /\ ~truthy(cfg.pre)
    /\ pc' = "flags"
    /\ UNCHANGED <<flags, packageJson, files, bundles, cfg, opts, dts, tasks, preHook,
                   postHook, emptyDirLog, err, stderr, stdout, exitCode>>

PreSucceeds ==
    /\ pc = "awaitPre"
    /\ \E w \in HookWrites : files' = files \cup w
    /\ ~execRejects(0)
    /\ preHook' = "done"
    /\ pc' = "flags"
    /\ UNCHANGED <<flags, packageJson, bundles, cfg, opts, dts, tasks,
                   postHook, emptyDirLog, err, stderr, stdout, exitCode>>

PreFails ==
    /\ pc = "awaitPre"
    /\ \E w \in HookWrites : files' = files \cup w
    /\ execRejects(1)
    /\ preHook' = "failed"
    /\ err' = [isError |-> TRUE, step |-> "pre"]
    /\ pc' = "rejected"
    /\ UNCHANGED <<flags, packageJson, bundles, cfg, opts, dts, tasks,
                   postHook, emptyDirLog, stderr, stdout, exitCode>>

\* const reset = hasFlag(flags, 'reset') ... if (reset)
ParseFlags ==
    /\ pc = "flags"
    /\ opts' = [reset     |-> hasFlag(flags, reset_),
                watch     |-> hasFlag(flags, watch_),
                optimized |-> hasFlag(flags, optimized_)]
    /\ pc' = IF opts'.reset THEN "emptyDir" ELSE "getDTS"
    /\ UNCHANGED <<flags, packageJson, files, bundles, cfg, dts, tasks, preHook,
                   postHook, emptyDirLog, err, stderr, stdout, exitCode>>

\* await fs.emptyDir(join(process.cwd(), 'dist'))
EmptyDirResolves ==
    /\ pc = "emptyDir"
    /\ LET dir == join(<<ProcessCwd, DistName>>)
       IN  /\ files' = emptyDir(files, dir)
           /\ bundles' = {b \in bundles : b.outDir # dir}
           /\ emptyDirLog' = Append(emptyDirLog, {f.path : f \in files \ files'})
    /\ pc' = "getDTS"
    /\ UNCHANGED <<flags, packageJson, cfg, opts, dts, tasks, preHook,
                   postHook, err, stderr, stdout, exitCode>>

EmptyDirRejects ==
    /\ pc = "emptyDir"
    /\ err' = [isError |-> TRUE, step |-> "emptyDir"]
    /\ pc' = "rejected"
    /\ UNCHANGED <<flags, packageJson, files, bundles, cfg, opts, dts, tasks, preHook,
                   postHook, emptyDirLog, stderr, stdout, exitCode>>

\* await getDTSConfigs({ formats, entries, optimized })
GetDTSConfigs ==
    /\ pc = "getDTS"
    /\ dts' = getDTSConfigs(files, cfg.formats, cfg.entries, opts.optimized)
    /\ pc' = "esm"
    /\ UNCHANGED <<flags, packageJson, files, bundles, cfg, opts, tasks, preHook,
                   postHook, emptyDirLog, err, stderr, stdout, exitCode>>

\* if (formats.includes('esm')) { tasks.push(build({...})) }
DispatchEsm ==
    /\ pc = "esm"
    /\ requested(cfg.formats, "esm")
    /\ tasks' = Append(tasks, esmBuild(cfg, opts, dts))
    /\ pc' = "cjs"
    /\ UNCHANGED <<flags, packageJson, files, bundles, cfg, opts, dts, preHook,
                   postHook, emptyDirLog, err, stderr, stdout, exitCode>>

SkipEsm ==
    /\ pc = "esm"
    /\ ~requested(cfg.formats, "esm")
    /\ pc' = "cjs"
    /\ UNCHANGED <<flags, packageJson, files, bundles, cfg, opts, dts, tasks, preHook,
                   postHook, emptyDirLog, err, stderr, stdout, exitCode>>

\* if (formats.includes('cjs')) { tasks.push(build({...})) }
DispatchCjs ==
    /\ pc = "cjs"
    /\ requested(cfg.formats, "cjs")
    /\ tasks' = Append(tasks, cjsBuild(cfg, opts, dts))
    /\ pc' = "mappers"
    /\ UNCHANGED <<flags, packageJson, files, bundles, cfg, opts, dts, preHook,
                   postHook, emptyDirLog, err, stderr, stdout, exitCode>>

SkipCjs ==
    /\ pc = "cjs"
    /\ ~requested(cfg.formats, "cjs")
    /\ pc' = "mappers"
    /\ UNCHANGED <<flags, packageJson, files, bundles, cfg, opts, dts, tasks, preHook,
                   postHook, emptyDirLog, err, stderr, stdout, exitCode>>

\* if (tsConfigExists && !optimized) { tasks.push(...entries.map(generateDTSMapperFile)) }
DispatchMappers ==
    /\ pc = "mappers"
    /\ mapsDeclarations(dts, opts)
    /\ tasks' = tasks \o [i \in 1..Len(cfg.entries) |-> mapperTask(cfg.entries[i])]
    /\ pc' = "awaitAll"
    /\ UNCHANGED <<flags, packageJson, files, bundles, cfg, opts, dts, preHook,
                   postHook, emptyDirLog, err, stderr, stdout, exitCode>>

SkipMappers ==
    /\ pc = "mappers"
    /\ ~mapsDeclarations(dts, opts)
    /\ pc' = "awaitAll"
    /\ UNCHANGED <<flags, packageJson, files, bundles, cfg, opts, dts, tasks, preHook,
                   postHook, emptyDirLog, err, stderr, stdout, exitCode>>

(***************************************************************************)
(* The dispatched tasks, which advance while run() awaits Promise.all.  A  *)
(* rejection reaches run() in the same turn of the event loop.             *)
(***************************************************************************)
settle(ts, e) ==
    /\ tasks' = ts
    /\ IF promiseAll(ts) = "rejected"
       THEN pc' = "rejected" /\ err' = e
       ELSE pc' = pc /\ err' = IF e = NoError THEN err ELSE e

BuildFulfils(i) ==
    /\ pc = "awaitAll"
    /\ tasks[i].kind = "build" /\ tasks[i].state = "pending"
    /\ bundles' = bundles \cup emitted(tasks[i])
    /\ settle([tasks EXCEPT ![i].state = "fulfilled"], NoError)
    /\ UNCHANGED <<flags, packageJson, files, cfg, opts, dts, preHook,
                   postHook, emptyDirLog, stderr, stdout, exitCode>>

BuildRejects(i) ==
    /\ pc = "awaitAll"
    /\ tasks[i].kind = "build" /\ tasks[i].state = "pending"
    /\ \E isError \in BOOLEAN :
          settle([tasks EXCEPT ![i].state = "rejected"],
                 [isError |-> isError, step |-> tasks[i].format])
    /\ UNCHANGED <<flags, packageJson, files, bundles, cfg, opts, dts, preHook,
                   postHook, emptyDirLog, stderr, stdout, exitCode>>

\* await fs.ensureFile(pathName)
MapperEnsures(i) ==
    /\ pc = "awaitAll"
    /\ tasks[i].kind = "mapper" /\ tasks[i].state = "ensureFile"
    /\ files' = ensureFile(files, dtsMapperPath(tasks[i].file))
    /\ settle([tasks EXCEPT ![i].state = "writeFile"], NoError)
    /\ UNCHANGED <<flags, packageJson, bundles, cfg, opts, dts, preHook,
                   postHook, emptyDirLog, stderr, stdout, exitCode>>

\* await fs.writeFile(pathName, dedent`...`, { encoding: 'utf-8' })
MapperWrites(i) ==
    /\ pc = "awaitAll"
    /\ tasks[i].kind = "mapper" /\ tasks[i].state = "writeFile"
    /\ files' = writeFile(files, dtsMapperPath(tasks[i].file), dtsMapperRef(tasks[i].file))
    /\ settle([tasks EXCEPT ![i].state = "fulfilled"], NoError)
    /\ UNCHANGED <<flags, packageJson, bundles, cfg, opts, dts, preHook,
                   postHook, emptyDirLog, stderr, stdout, exitCode>>

MapperRejects(i) ==
    /\ pc = "awaitAll"
    /\ tasks[i].kind = "mapper" /\ tasks[i].state \in {"ensureFile", "writeFile"}
    /\ settle([tasks EXCEPT ![i].state = "rejected"], [isError |-> TRUE, step |-> "mapper"])
    /\ UNCHANGED <<flags, packageJson, files, bundles, cfg, opts, dts, preHook,
                   postHook, emptyDirLog, stderr, stdout, exitCode>>

\* await Promise.all(tasks) resolves
AllResolve ==
    /\ pc = "awaitAll"
    /\ promiseAll(tasks) = "fulfilled"
    /\ pc' = "post"
    /\ UNCHANGED <<flags, packageJson, files, bundles, cfg, opts, dts, tasks, preHook,
                   postHook, emptyDirLog, err, stderr, stdout, exitCode>>

\* if (post) { await exec(..., { debug: true }) }
ExecPost ==
    /\ pc = "post"
    /\ truthy(cfg.post)
    /\ postHook' = "running"
    /\ pc' = "awaitPost"
    /\ UNCHANGED <<flags, packageJson, files, bundles, cfg, opts, dts, tasks, preHook,
                   emptyDirLog, err, stderr, stdout, exitCode>>

SkipPost ==
    /\ pc = "post"
    /\ ~truthy(cfg.post)
    /\ pc' = "report"
    /\ UNCHANGED <<flags, packageJson, files, bundles, cfg, opts, dts, tasks, preHook,
                   postHook, emptyDirLog, err, stderr, stdout, exitCode>>

PostSucceeds ==
    /\ pc = "awaitPost"
    /\ ~execRejects(0)
    /\ postHook' = "done"
    /\ pc' = "report"
    /\ UNCHANGED <<flags, packageJson, files, bundles, cfg, opts, dts, tasks, preHook,
                   emptyDirLog, err, stderr, stdout, exitCode>>

PostFails ==
    /\ pc = "awaitPost"
    /\ execRejects(1)
    /\ postHook' = "failed"
    /\ err' = [isError |-> TRUE, step |-> "post"]
    /\ pc' = "rejected"
    /\ UNCHANGED <<flags, packageJson, files, bundles, cfg, opts, dts, tasks, preHook,
                   emptyDirLog, stderr, stdout, exitCode>>

\* if (process.env.CI !== 'true') { console.log('done') }
ReportDone ==
    /\ pc = "report"
    /\ stdout' = Append(stdout, "done")
    /\ pc' = "resolved"
    /\ UNCHANGED <<flags, packageJson, files, bundles, cfg, opts, dts, tasks, preHook,
                   postHook, emptyDirLog, err, stderr, exitCode>>

ReportSilent ==
    /\ pc = "report"
    /\ pc' = "resolved"
    /\ UNCHANGED <<flags, packageJson, files, bundles, cfg, opts, dts, tasks, preHook,
                   postHook, emptyDirLog, err, stderr, stdout, exitCode>>

\* run({ cwd, flags }).catch((err) => { ...; process.exit(1) })
Catch ==
    /\ pc = "rejected"
    /\ stderr' = IF printsStack(err) THEN Append(stderr, err.step) ELSE stderr
    /\ exitCode' = catchExitCode
    /\ pc' = "exited"
    /\ UNCHANGED <<flags, packageJson, files, bundles, cfg, opts, dts, tasks, preHook,
                   postHook, emptyDirLog, err, stdout>>

\* run() resolved and nothing keeps the event loop alive: the process ends
Exit ==
    /\ pc = "resolved"
    /\ ~opts.watch
    /\ pc' = "exited"
    /\ UNCHANGED <<flags, packageJson, files, bundles, cfg, opts, dts, tasks, preHook,
                   postHook, emptyDirLog, err, stderr, stdout, exitCode>>

Next ==
    \/ ReadJsonResolves \/ ReadJsonRejects
    \/ ExecPre \/ SkipPre \/ PreSucceeds \/ PreFails
    \/ ParseFlags \/ EmptyDirResolves \/ EmptyDirRejects
    \/ GetDTSConfigs
    \/ DispatchEsm \/ SkipEsm \/ DispatchCjs \/ SkipCjs
    \/ DispatchMappers \/ SkipMappers
    \/ \E i \in 1..Len(tasks) : BuildFulfils(i)
    \/ \E i \in 1..Len(tasks) : BuildRejects(i)
    \/ \E i \in 1..Len(tasks) : MapperEnsures(i)
    \/ \E i \in 1..Len(tasks) : MapperWrites(i)
    \/ \E i \in 1..Len(tasks) : MapperRejects(i)
    \/ AllResolve
    \/ ExecPost \/ SkipPost \/ PostSucceeds \/ PostFails
    \/ ReportDone \/ ReportSilent
    \/ Catch \/ Exit

(***************************************************************************)
(* The inputs: manifests, argument lists and disk contents.                *)
(***************************************************************************)
\* the lists of at most n distinct members of pool
Lists(pool, n) ==
    {l \in UNION {[1..k -> pool] : k \in 0..n} :
        \A i, j \in 1..Len(l) : i # j => l[i] # l[j]}

\* bundler.formats: left out of the manifest, or a list of distinct formats
FormatChoices ==
    {[given |-> FALSE, list |-> <<>>]}
    \cup {[given |-> TRUE, list |-> l] : l \in Lists({"esm", "cjs"}, 2)}

\* bundler.pre and bundler.post: left out ('') or a script path
HookChoices == [pre : {"", "./scripts/pre.ts"}, post : {"", "./scripts/post.ts"}]

\* dependencies, peerDependencies, bundler.externals, bundler.noExternal
NoDeps == [defined |-> {}, dependencies |-> <<>>, peerDependencies |-> <<>>,
           externals |-> <<>>, noExternal |-> <<>>]

SomeDeps == [defined |-> {"dependencies", "peerDependencies", "externals"},
             dependencies |-> <<Lodash>>, peerDependencies |-> <<React>>,
             externals |-> <<Chalk>>, noExternal |-> <<>>]

Manifests(entryLists, formatChoices, platforms, hookChoices, depChoices) ==
    {[valid            |-> TRUE,
      name             |-> PackageName,
      defined          |-> {"entries", "platform"} \cup d.defined
                           \cup (IF f.given THEN {"formats"} ELSE {})
                           \cup (IF h.pre # "" THEN {"pre"} ELSE {})
                           \cup (IF h.post # "" THEN {"post"} ELSE {}),
      dependencies     |-> d.dependencies,
      peerDependencies |-> d.peerDependencies,
      entries          |-> e,
      externals        |-> d.externals,
      noExternal       |-> d.noExternal,
      platform         |-> p,
      pre              |-> h.pre,
      post             |-> h.post,
      formats          |-> f.list] :
        e \in entryLists, f \in formatChoices, p \in platforms,
        h \in hookChoices, d \in depChoices}

\* a package.json that does not parse, or has no bundler section
BrokenManifest ==
    [valid |-> FALSE, name |-> PackageName, defined |-> {}, dependencies |-> <<>>,
     peerDependencies |-> <<>>, entries |-> <<>>, externals |-> <<>>, noExternal |-> <<>>,
     platform |-> "undefined", pre |-> "", post |-> "", formats |-> <<>>]

\* the disk before the run: tsconfig.json or none, a stale file in dist or none
TsconfigFile == [path |-> join(<<ProcessCwd, TsconfigJson>>), kind |-> "tsconfig", ref |-> <<>>]

StaleDistFile == [path |-> StaleFile, kind |-> "stale", ref |-> <<>>]

Disks == SUBSET {TsconfigFile, StaleDistFile}

\* a world: the manifest, the arguments and the disk a run starts from
InitWith(worlds) ==
    /\ \E w \in worlds :
          /\ packageJson = w.manifest
          /\ flags = w.flags
          /\ files = w.files
    /\ pc = "readJson"
    /\ bundles = {}
    /\ cfg = destructure(BrokenManifest)
    /\ opts = [reset |-> FALSE, watch |-> FALSE, optimized |-> FALSE]
    /\ dts = getDTSConfigs({}, <<>>, <<>>, FALSE)
    /\ tasks = <<>>
    /\ preHook = "idle"
    /\ postHook = "idle"
    /\ emptyDirLog = <<>>
    /\ err = NoError
    /\ stderr = <<>>
    /\ stdout = <<>>
    /\ exitCode = 0

(***************************************************************************)
(* Spec: the run as a whole, over every hook, flag, format and disk        *)
(* combination, for packages of up to MaxEntries entries.                  *)
(***************************************************************************)
RunEntries == {IndexEntry, FooPresetEntry}

RunFlags == {<<>>, <<ResetFlag>>, <<OptimizedFlag>>, <<ResetFlag, OptimizedFlag>>, <<WatchFlag>>}

Init ==
    InitWith([manifest : {BrokenManifest}
                            \cup Manifests(Lists(RunEntries, MaxEntries), FormatChoices,
                                           {"node"}, HookChoices, {NoDeps}),
              flags    : RunFlags,
              files    : Disks])

Spec == Init /\ [][Next]_vars

(***************************************************************************)
(* SpecPlan: the build plan over the entry paths, the dependency lists and *)
(* the platforms, in three settings of hooks, arguments and disk.          *)
(***************************************************************************)
PlanEntries == {FooPresetEntry, PresetsIndexEntry, BareManagerEntry}

PlanFormats == {f \in FormatChoices : f.list \in {<<>>, <<"esm">>, <<"cjs">>, <<"cjs", "esm">>}
                                      /\ (f.given \/ f.list = <<>>) /\ (f.given => f.list # <<>>)}

PlanManifests(hooks) ==
    Manifests(Lists(PlanEntries, MaxEntries), PlanFormats, {"node"}, hooks, {SomeDeps})
    \cup Manifests(Lists(PlanEntries, MaxEntries), PlanFormats, {"browser"}, hooks, {NoDeps})

NoHooks == {[pre |-> "", post |-> ""]}

BothHooks == {[pre |-> "./scripts/pre.ts", post |-> "./scripts/post.ts"]}

InitPlan ==
    InitWith([manifest : PlanManifests(NoHooks),
              flags    : {<<>>, <<OptimizedEqFlag>>},
              files    : {{TsconfigFile}}]
             \cup [manifest : {BrokenManifest} \cup PlanManifests(BothHooks),
                   flags    : {<<ResetFlag, WatchFlag>>},
                   files    : {{StaleDistFile}}])

SpecPlan == InitPlan /\ [][Next]_vars

(***************************************************************************)
(* Vocabulary of the properties.                                           *)
(***************************************************************************)
\* every dispatch decision of run() has been taken
PastDispatch ==
    \/ pc \in {"awaitAll", "post", "awaitPost", "report", "resolved"}
    \/ pc \in {"rejected", "exited"} /\ err.step \in {"esm", "cjs", "mapper", "post"}
    \/ pc = "exited" /\ err = NoError

\* the tasks of one kind, by their place in the tasks array
BuildTasks(f) == {i \in 1..Len(tasks) : tasks[i].kind = "build" /\ tasks[i].format = f}

MapperTasks == {i \in 1..Len(tasks) : tasks[i].kind = "mapper"}

DtsTasks == {i \in 1..Len(tasks) : tasks[i].kind = "build" /\ tasks[i].dts}

\* the mapping files on disk
MapperFiles == {f \in files : f.kind \in {"mapper", "empty"}}

\* nothing lies in the output directory
DistEmpty ==
    /\ \A f \in files : ~inDir(f.path, join(<<ProcessCwd, DistName>>))
    /\ bundles = {}

\* the arguments as passed, the manifest as written, the disk as found
OptimizedPassed == \E i \in 1..Len(flags) : flags[i] \in {OptimizedFlag, OptimizedEqFlag}

ResetPassed == \E i \in 1..Len(flags) : flags[i] = ResetFlag

TsconfigPresent == TsconfigFile \in files

FormatsGiven == packageJson.valid /\ "formats" \in packageJson.defined

RequestedFormats == IF FormatsGiven THEN packageJson.formats ELSE <<"esm", "cjs">>

PreConfigured == packageJson.valid /\ packageJson.pre # ""

PostConfigured == packageJson.valid /\ packageJson.post # ""

\* no task has done anything yet
NoTaskStarted ==
    \A i \in 1..Len(tasks) : tasks[i].state \in {"pending", "ensureFile"}

(***************************************************************************)
(* C1: hooks are ordering barriers. With a pre hook configured, a task is  *)
(* dispatched, a bundle emitted or a mapping file written only once the    *)
(* pre hook has completed; the post hook starts only when every dispatched *)
(* build and mapping-file task has finished.                               *)
(***************************************************************************)
C1_HooksAreBarriers ==
    /\ (PreConfigured /\ (tasks # <<>> \/ bundles # {} \/ MapperFiles # {}))
          => preHook = "done"
    /\ preHook = "running" => tasks = <<>>
    /\ postHook # "idle" =>
          /\ pc \notin {"readJson", "pre", "awaitPre", "flags", "emptyDir", "getDTS",
                        "esm", "cjs", "mappers", "awaitAll"}
          /\ \A i \in 1..Len(tasks) : tasks[i].state = "fulfilled"

C1_Witness ==
    /\ preHook = "done" /\ postHook = "done"
    /\ BuildTasks("esm") # {} /\ BuildTasks("cjs") # {} /\ Cardinality(MapperTasks) = 2
    /\ \A i \in 1..Len(tasks) : tasks[i].state = "fulfilled"

(***************************************************************************)
(* C2 as amended: the exit code is 0 when the run succeeds and 1 on every  *)
(* fatal error (manifest, hook, emptyDir, build or mapping-file failure);  *)
(* the error's stack is printed to the error stream when the value the run *)
(* rejected with is an Error, and nothing is printed when it is not.       *)
(***************************************************************************)
C2_ExitCodeAndStack ==
    pc = "exited" =>
        /\ err = NoError => exitCode = 0 /\ stderr = <<>>
        /\ err # NoError =>
              /\ exitCode = 1
              /\ stderr = IF err.isError THEN <<err.step>> ELSE <<>>
        /\ (\/ ~packageJson.valid
            \/ preHook = "failed"
            \/ postHook = "failed"
            \/ \E i \in 1..Len(tasks) : tasks[i].state = "rejected") => exitCode = 1

C2_Witness ==
    /\ pc = "exited" /\ exitCode = 1
    /\ err = [isError |-> TRUE, step |-> "cjs"]
    /\ stderr = <<"cjs">>

\* C2 as stated: on every fatal error the error's description is printed
C2_AlwaysPrinted ==
    pc = "exited" =>
        /\ err = NoError => exitCode = 0
        /\ err # NoError => exitCode = 1 /\ stderr = <<err.step>>

(***************************************************************************)
(* C3: an error aborts the rest of the run. After a failure of the         *)
(* manifest load or of the pre hook, dist is not cleared, nothing is       *)
(* dispatched, the post hook does not run and 'done' is not printed; after *)
(* a failed build or mapping-file task, the post hook does not run and     *)
(* 'done' is not printed; the run only goes on to its catch handler.       *)
(***************************************************************************)
C3_ErrorsAbort ==
    /\ err # NoError => pc \in {"rejected", "exited"}
    /\ (err.step \in {"readJson", "pre"} \/ preHook = "failed") =>
          /\ emptyDirLog = <<>>
          /\ tasks = <<>> /\ bundles = {} /\ MapperFiles = {}
          /\ postHook = "idle" /\ stdout = <<>>
    /\ err.step = "readJson" => preHook = "idle"
    /\ err.step = "emptyDir" =>
          tasks = <<>> /\ bundles = {} /\ postHook = "idle" /\ stdout = <<>>
    /\ (\E i \in 1..Len(tasks) : tasks[i].state = "rejected") =>
          /\ postHook = "idle" /\ stdout = <<>>
          /\ err.step \in {"esm", "cjs", "mapper"}
    /\ (err.step = "post" \/ postHook = "failed") => stdout = <<>>

C3_Witness ==
    /\ pc = "exited"
    /\ PostConfigured
    /\ err.step = "cjs"
    /\ \E i \in 1..Len(tasks) : tasks[i].state = "fulfilled"
    /\ \E i \in 1..Len(tasks) : tasks[i].state = "rejected"

\* with the one format f requested, nothing of the other format exists
OnlyFormat(f, other) ==
    (FormatsGiven /\ packageJson.formats = <<f>>) =>
        /\ BuildTasks(other) = {}
        /\ \A b \in bundles : b.format # other

(***************************************************************************)
(* C4: a build task exists for a format only if the format is in the       *)
(* requested list; with formats = ['esm'] there is no CommonJS task and no *)
(* CommonJS output, with formats = ['cjs'] no ESM task and no ESM output.  *)
(***************************************************************************)
C4_OnlyRequestedFormats ==
    /\ OnlyFormat("esm", "cjs")
    /\ OnlyFormat("cjs", "esm")
    /\ \A i \in 1..Len(tasks) : tasks[i].kind = "build" =>
          \E k \in 1..Len(RequestedFormats) : RequestedFormats[k] = tasks[i].format

C4_Witness ==
    /\ FormatsGiven /\ packageJson.formats = <<"esm">>
    /\ pc = "resolved"
    /\ \E b \in bundles : b.format = "esm"

(***************************************************************************)
(* C6: with --reset, the output directory is empty from the clearing step  *)
(* until the tasks start, whatever it held before and whatever the pre     *)
(* hook wrote there.                                                       *)
(***************************************************************************)
C6_ResetEmptiesDist ==
    (/\ ResetPassed
     /\ \/ pc \in {"getDTS", "esm", "cjs", "mappers"}
        \/ pc = "awaitAll" /\ NoTaskStarted) => DistEmpty

C6_Witness ==
    /\ ResetPassed
    /\ pc = "cjs" /\ Len(tasks) = 1
    /\ preHook = "done"
    /\ emptyDirLog = <<{StaleFile, HookFile}>>

(***************************************************************************)
(* C8 as amended: in optimized mode no mapping file is written; when       *)
(* optimized is set, tsconfig.json exists and the format list is not       *)
(* empty, declaration generation is attached to exactly one build task,    *)
(* the task of formats[0]; otherwise it is attached to no task.            *)
(***************************************************************************)
C8_DtsOnFirstFormat ==
    PastDispatch =>
        /\ OptimizedPassed => MapperTasks = {} /\ MapperFiles = {}
        /\ IF OptimizedPassed /\ TsconfigPresent /\ RequestedFormats # <<>>
           THEN /\ Cardinality(DtsTasks) = 1
                /\ \A i \in DtsTasks : tasks[i].format = RequestedFormats[1]
           ELSE DtsTasks = {}

C8_Witness ==
    /\ pc = "resolved"
    /\ OptimizedPassed /\ TsconfigPresent
    /\ FormatsGiven /\ packageJson.formats = <<"cjs", "esm">>
    /\ \E b \in bundles : b.kind = "dts" /\ b.format = "cjs"

\* C8 as stated: optimized (with a tsconfig.json) always attaches it to one task
C8_AlwaysOneDtsTask ==
    (PastDispatch /\ OptimizedPassed /\ TsconfigPresent) => Cardinality(DtsTasks) = 1

\* one ESM task and one CommonJS task, pushed in this order
BothDispatched ==
    /\ Cardinality(BuildTasks("esm")) = 1
    /\ Cardinality(BuildTasks("cjs")) = 1
    /\ \A i \in BuildTasks("esm"), j \in BuildTasks("cjs") : i < j

(***************************************************************************)
(* C10 as amended: when the manifest has no formats field, both an ESM and *)
(* a CommonJS task are dispatched, and in optimized mode with a            *)
(* tsconfig.json declaration generation is attached to the ESM task, the   *)
(* first of them; a formats field that is an empty list dispatches no      *)
(* build task at all.                                                      *)
(***************************************************************************)
C10_DefaultFormats ==
    (PastDispatch /\ packageJson.valid) =>
        /\ ~FormatsGiven =>
              /\ BothDispatched
              /\ (OptimizedPassed /\ TsconfigPresent) => DtsTasks = BuildTasks("esm")
        /\ (FormatsGiven /\ packageJson.formats = <<>>) =>
              BuildTasks("esm") = {} /\ BuildTasks("cjs") = {} /\ DtsTasks = {}

C10_Witness ==
    /\ pc = "resolved"
    /\ packageJson.valid /\ ~FormatsGiven
    /\ OptimizedPassed /\ TsconfigPresent
    /\ \E b \in bundles : b.kind = "dts" /\ b.format = "esm"
    /\ \E b \in bundles : b.kind = "js" /\ b.format = "cjs"

\* C10 as stated: an empty format list defaults to both formats too
C10_EmptyDefaultsToBoth ==
    (PastDispatch /\ packageJson.valid /\ (~FormatsGiven \/ packageJson.formats = <<>>))
        => BothDispatched

\* the entry's file name contains 'preset'
NamedPreset(e) == StrIncludes(parse(e).name, PresetWord)

\* entry e is in the entry set of task i
EntryOf(i, e) == ArrIncludes(tasks[i].entry, join(<<ProcessCwd, e>>))

(***************************************************************************)
(* C5 as amended: an entry whose file name (path.parse's name, the base    *)
(* name without its extension) contains "preset" is never in the entry set *)
(* of the ESM task and is in the entry set of the CommonJS task whenever a *)
(* CommonJS task is dispatched; every other entry is in the entry set of   *)
(* each task that is dispatched.                                           *)
(***************************************************************************)
C5_PresetsAreCjsOnly ==
    \A k \in 1..Len(cfg.entries) :
        LET e == cfg.entries[k]
        IN  /\ \A i \in BuildTasks("esm") : EntryOf(i, e) <=> ~NamedPreset(e)
            /\ \A i \in BuildTasks("cjs") : EntryOf(i, e)

C5_Witness ==
    /\ pc = "resolved"
    /\ cfg.entries = <<PresetsIndexEntry, FooPresetEntry>>
    /\ \E b \in bundles : b.format = "esm" /\ b.entry = join(<<ProcessCwd, PresetsIndexEntry>>)
    /\ \E b \in bundles : b.format = "cjs" /\ b.entry = join(<<ProcessCwd, FooPresetEntry>>)
    /\ ~\E b \in bundles : b.format = "esm" /\ b.entry = join(<<ProcessCwd, FooPresetEntry>>)

\* C5 as stated: for every format list a preset entry ends up in CommonJS output
C5_PresetAlwaysInCjsOutput ==
    pc = "resolved" =>
        \A k \in 1..Len(cfg.entries) :
            LET e == cfg.entries[k]
            IN  NamedPreset(e) =>
                    /\ \E b \in bundles : b.format = "cjs" /\ b.entry = join(<<ProcessCwd, e>>)
                    /\ ~\E b \in bundles : b.format = "esm" /\ b.entry = join(<<ProcessCwd, e>>)

\* dist/<the entry's path below src, without its extension>.d.ts
MirrorPath(e) ==
    LET srcFile == join(<<ProcessCwd, e>>)
        below   == relative(join(<<ProcessCwd, SrcName>>), dirname(srcFile))
    IN  join(<<ProcessCwd, DistName, below, parse(e).name \o DtsExt>>)

\* the file a module reference in the file at path `from` stands for
ResolveRef(from, ref) ==
    IF StartsWith(ref, <<dot, sep>>) \/ StartsWith(ref, <<dot, dot, sep>>)
    THEN join(<<dirname(from), ref>>)
    ELSE ref

\* file f re-exports from a relative reference that resolves to entry e
ReExportsEntry(f, e) ==
    /\ f.kind = "mapper"
    /\ StartsWith(f.ref, <<dot, sep>>) \/ StartsWith(f.ref, <<dot, dot, sep>>)
    /\ ResolveRef(f.path, f.ref) \o parse(e).ext = join(<<ProcessCwd, e>>)

(***************************************************************************)
(* C7: without --optimized and with a tsconfig.json, a successful run      *)
(* leaves one mapping file per entry under dist, at the path that mirrors  *)
(* the entry's path below src, re-exporting from a relative reference that *)
(* resolves to the entry.                                                  *)
(***************************************************************************)
C7_OneMapperPerEntry ==
    (pc = "resolved" /\ ~OptimizedPassed /\ TsconfigPresent) =>
        /\ Cardinality({f \in MapperFiles : inDir(f.path, join(<<ProcessCwd, DistName>>))})
              = Len(cfg.entries)
        /\ \A k \in 1..Len(cfg.entries) :
              \E f \in MapperFiles :
                  /\ f.path = MirrorPath(cfg.entries[k])
                  /\ ReExportsEntry(f, cfg.entries[k])

\* C7 restricted to entries written as './src/...', where it holds
C7_HoldsForDotSrcEntries ==
    (/\ pc = "resolved" /\ ~OptimizedPassed /\ TsconfigPresent
     /\ \A k \in 1..Len(cfg.entries) : StartsWith(cfg.entries[k], DotSrc \o <<sep>>)) =>
        /\ Cardinality({f \in MapperFiles : inDir(f.path, join(<<ProcessCwd, DistName>>))})
              = Len(cfg.entries)
        /\ \A k \in 1..Len(cfg.entries) :
              \E f \in MapperFiles :
                  /\ f.path = MirrorPath(cfg.entries[k])
                  /\ ReExportsEntry(f, cfg.entries[k])

\* the members of a list
Range(l) == {l[i] : i \in 1..Len(l)}

\* the names the manifest declares external
DeclaredExternals ==
    {packageJson.name} \cup Range(packageJson.externals)
    \cup Range(packageJson.dependencies) \cup Range(packageJson.peerDependencies)

\* every Node built-in, as 'x' and as 'node:x'
NodeBuiltins ==
    Range(nodeInternalNames) \cup {NodeScheme \o n : n \in Range(nodeInternalNames)}

(***************************************************************************)
(* C9: the external list of every build task is the package name, the      *)
(* extra externals, the dependency names and the peer dependency names;    *)
(* the ESM task of a 'node' package has the Node built-ins as well, each   *)
(* as 'x' and as 'node:x'; the package name is in every external list.     *)
(***************************************************************************)
C9_ExternalSet ==
    \A i \in 1..Len(tasks) : tasks[i].kind = "build" =>
        /\ packageJson.name \in Range(tasks[i].external)
        /\ Range(tasks[i].external) =
              IF tasks[i].format = "esm" /\ packageJson.platform = "node"
              THEN DeclaredExternals \cup NodeBuiltins
              ELSE DeclaredExternals

\* C9 without the built-ins: the part that holds
C9_DeclaredExternalsOnly ==
    \A i \in 1..Len(tasks) : tasks[i].kind = "build" =>
        /\ packageJson.name \in Range(tasks[i].external)
        /\ Range(tasks[i].external) = DeclaredExternals

====
